---- MODULE Spec2Model ----
(***************************************************************************)
(* The localization engine of notedeck (crates/notedeck/src/i18n/manager.rs):*)
(* the Localization struct, its caches and its public operations.           *)
(***************************************************************************)
EXTENDS Integers, Sequences, FiniteSets, TLC

(***************************************************************************)
(* Locale identifiers (unic_langid::LanguageIdentifier): a primary language *)
(* subtag, an optional script, an optional region and the variants.  A      *)
(* subtag is a sequence of characters, the empty sequence when absent (the  *)
(* empty language is und).  Equality is equality of the tag.                *)
(***************************************************************************)
LangId(l, r) == [language |-> l, script |-> << >>, region |-> r, variants |-> {}]

EN_US == LangId(<< "e", "n" >>, << "U", "S" >>)
EN_XA == LangId(<< "e", "n" >>, << "X", "A" >>)
DE == LangId(<< "d", "e" >>, << >>)
ES_419 == LangId(<< "e", "s" >>, << "4", "1", "9" >>)
ES_ES == LangId(<< "e", "s" >>, << "E", "S" >>)
FR == LangId(<< "f", "r" >>, << >>)
PT_BR == LangId(<< "p", "t" >>, << "B", "R" >>)
TH == LangId(<< "t", "h" >>, << >>)
ZH_CN == LangId(<< "z", "h" >>, << "C", "N" >>)
ZH_TW == LangId(<< "z", "h" >>, << "T", "W" >>)
NUM_FTLS == 10

\* A locale the application ships no resources for.
IT == LangId(<< "i", "t" >>, << >>)

(***************************************************************************)
(* Maps (HashMap): functions with a finite domain.                          *)
(***************************************************************************)
EmptyMap == <<>>

Put(m, k, v) == [x \in (DOMAIN m) \cup {k} |-> IF x = k THEN v ELSE m[x]]

Range(s) == {s[i] : i \in DOMAIN s}

(***************************************************************************)
(* Results.  Ok carries the value, an error its kind and its payload, and a *)
(* panic (a failed expect) its message.                                     *)
(***************************************************************************)
Ok(v) == [kind |-> "Ok", value |-> v]
Unit == "()"
NotFound(id) == [kind |-> "NotFound", value |-> id]
NoValue(id) == [kind |-> "NoValue", value |-> id]
NoFtl(lang) == [kind |-> "NoFtl", value |-> lang]
LocaleNotAvailable(lang) == [kind |-> "LocaleNotAvailable", value |-> lang]
Panic(msg) == [kind |-> "panic", value |-> msg]

IsOk(r) == r.kind = "Ok"

(***************************************************************************)
(* Fluent arguments: Option<&FluentArgs>.                                   *)
(***************************************************************************)
None == [some |-> FALSE, map |-> EmptyMap]
Some(m) == [some |-> TRUE, map |-> m]

(***************************************************************************)
(* The embedded translation sources.  An FTL source is a sequence of        *)
(* entries: messages (an identifier, an optional value pattern, attributes) *)
(* and junk (text the parser could not read).  A pattern is a sequence of   *)
(* elements: literal text or a placeable naming a variable.                 *)
(***************************************************************************)
Text(s) == [type |-> "text", value |-> s]
Var(n) == [type |-> "var", value |-> n]

Message(id, pattern) ==
    [kind |-> "message", id |-> id, has_value |-> TRUE, pattern |-> pattern,
     attributes |-> {}]
AttributesOnly(id, attrs) ==
    [kind |-> "message", id |-> id, has_value |-> FALSE, pattern |-> <<>>,
     attributes |-> attrs]
Junk == [kind |-> "junk", id |-> "", has_value |-> FALSE, pattern |-> <<>>,
         attributes |-> {}]

Hello(lang) ==
    CASE lang = EN_US -> "Hello"
      [] lang = EN_XA -> "[Hello]"
      [] lang = DE -> "Hallo"
      [] lang = ES_419 -> "Hola (419)"
      [] lang = ES_ES -> "Hola"
      [] lang = FR -> "Bonjour"
      [] lang = PT_BR -> "Ola"
      [] lang = TH -> "Sawasdee"
      [] lang = ZH_CN -> "Ni hao"
      [] OTHER -> "Nei hou"

Welcome(lang) ==
    CASE lang = EN_US -> "Welcome, "
      [] lang = EN_XA -> "[Welcome], "
      [] lang = DE -> "Willkommen, "
      [] lang = ES_419 -> "Bienvenido (419), "
      [] lang = ES_ES -> "Bienvenido, "
      [] lang = FR -> "Bienvenue, "
      [] lang = PT_BR -> "Bem-vindo, "
      [] lang = TH -> "Yindi, "
      [] lang = ZH_CN -> "Huanying, "
      [] OTHER -> "Fungying, "

\* main.ftl of a locale: a plain message, a message with a placeable, a
\* message with attributes only; en-US also has a message the translations
\* lack, and the French source has an entry the parser rejects and a
\* message defined twice.
MainFtl(lang) ==
    << Message("greeting", << Text(Hello(lang)) >>),
       Message("welcome", << Text(Welcome(lang)), Var("name") >>),
       AttributesOnly("title", {"tooltip"}) >>
    \o (IF lang = EN_US THEN << Message("only_en", << Text("English only") >>) >>
        ELSE << >>)
    \o (IF lang = FR
        THEN << Junk, Message("greeting", << Text("Salut") >>) >>
        ELSE << >>)

StaticBundle(lang) == [identifier |-> lang, ftl |-> MainFtl(lang)]

FTLS ==
    << StaticBundle(EN_US), StaticBundle(EN_XA), StaticBundle(DE),
       StaticBundle(ES_419), StaticBundle(ES_ES), StaticBundle(FR),
       StaticBundle(PT_BR), StaticBundle(TH), StaticBundle(ZH_CN),
       StaticBundle(ZH_TW) >>

(***************************************************************************)
(* fluent: parsing a source and adding it to a bundle.                      *)
(***************************************************************************)
\* FluentResource::try_new: the entries that parsed; junk is reported as an
\* error and the rest of the resource is kept.
try_new(ftl) ==
    [resource |-> SelectSeq(ftl, LAMBDA e : e.kind = "message"),
     errors |-> Len(SelectSeq(ftl, LAMBDA e : e.kind = "junk"))]

\* FluentBundle::add_resource: every message is entered under its
\* identifier; an identifier that is already there is reported as an
\* overriding error and the first entry stays.
add_resource(bundle, resource) ==
    LET ids == {resource[i].id : i \in DOMAIN resource}
        first(id) == CHOOSE i \in DOMAIN resource :
                        /\ resource[i].id = id
                        /\ \A j \in DOMAIN resource : resource[j].id = id => i <= j
        entry(id) == IF id \in DOMAIN bundle.messages
                     THEN bundle.messages[id]
                     ELSE [has_value |-> resource[first(id)].has_value,
                           pattern |-> resource[first(id)].pattern]
    IN [bundle EXCEPT !.messages =
            [id \in (DOMAIN bundle.messages) \cup ids |-> entry(id)]]

\* FluentBundle::new: no messages, isolation on.
FluentBundle_new(locales) ==
    [locales |-> locales, use_isolating |-> TRUE, messages |-> EmptyMap]

set_use_isolating(bundle, value) == [bundle EXCEPT !.use_isolating = value]

\* FluentBundle::format_pattern: literal text is copied; a placeable is
\* replaced by its argument, wrapped in the isolation marks FSI/PDI when the
\* bundle isolates and the pattern has more than one element; a placeable
\* with no argument is an error (reported, not fatal) and renders as its
\* reference.  The rendered text is the sequence of the pieces written.
Reference(n) == IF n = "name" THEN "{$name}" ELSE "{$?}"

RECURSIVE write_elements(_, _, _, _)
write_elements(elements, i, args, isolate) ==
    IF i > Len(elements) THEN << >>
    ELSE LET e == elements[i]
             piece ==
                 IF e.type = "text" THEN << e.value >>
                 ELSE LET v == IF args.some /\ e.value \in DOMAIN args.map
                               THEN args.map[e.value]
                               ELSE Reference(e.value)
                      IN IF isolate THEN << "FSI", v, "PDI" >> ELSE << v >>
         IN piece \o write_elements(elements, i + 1, args, isolate)

format_pattern(bundle, pattern, args) ==
    write_elements(pattern, 1, args, bundle.use_isolating /\ Len(pattern) > 1)

(***************************************************************************)
(* The engine: struct Localization.                                         *)
(***************************************************************************)
VARIABLES
    current_locale,        \* the locale lookups resolve against
    available_locales,     \* the locales the application ships, in order
    fallback_locale,       \* the locale used when nothing else is found
    locale_native_names,   \* locale -> its name in its own language
    string_cache,          \* locale -> (key -> rendered text), no-argument lookups
    normalized_key_cache,  \* raw key -> canonical key
    bundles,               \* locale -> parsed bundle
    use_isolating,         \* FALSE in an engine built with no_bidi
    files,                 \* the file system: directory -> (name -> entry)
    last                   \* the last call: operation, input, result, the sources
                           \* it parsed, and the engine and the file system
                           \* before it

vars == << current_locale, available_locales, fallback_locale,
           locale_native_names, string_cache, normalized_key_cache,
           bundles, use_isolating, files, last >>

\* The engine as a value (the receiver of a method).  parsed collects the
\* locales whose source load_bundle parses during the call ("loaded {} bundle
\* OK!" / "loading bundle with errors" in the log).
Self ==
    [current_locale |-> current_locale,
     available_locales |-> available_locales,
     fallback_locale |-> fallback_locale,
     locale_native_names |-> locale_native_names,
     string_cache |-> string_cache,
     normalized_key_cache |-> normalized_key_cache,
     bundles |-> bundles,
     use_isolating |-> use_isolating,
     parsed |-> {}]

\* What a &mut self method leaves: the engine and the value returned.
Return(self, ret) == [self |-> self, ret |-> ret]

(***************************************************************************)
(* Loading bundles.                                                         *)
(***************************************************************************)
\* The Ok arm and the Err arm of load_bundle's match on try_new: the parse
\* errors are logged, and the resource, with whatever parsed, is added to a
\* new bundle (add_resource errors are logged too).
bundle_of(static_bundle) ==
    Ok(add_resource(FluentBundle_new(<< static_bundle.identifier >>),
                    try_new(static_bundle.ftl).resource))

\* Localization::load_bundle: the first entry of FTLS for lang, or NoFtl.
load_bundle(lang) ==
    IF \E i \in 1..NUM_FTLS : FTLS[i].identifier = lang
    THEN bundle_of(FTLS[CHOOSE k \in 1..NUM_FTLS :
                          /\ FTLS[k].identifier = lang
                          /\ \A j \in 1..NUM_FTLS : FTLS[j].identifier = lang => k <= j])
    ELSE NoFtl(lang)

has_bundle(self, lang) == lang \in DOMAIN self.bundles

\* Result::expect: a panic with msg for an Err.
expect(r, msg) == IF IsOk(r.ret) THEN r ELSE Return(r.self, Panic(msg))

\* Localization::get_bundle: expect("make sure to call ensure_bundle!").
get_bundle(self, lang) ==
    IF lang \in DOMAIN self.bundles
    THEN Ok(self.bundles[lang])
    ELSE Panic("make sure to call ensure_bundle!")

\* try_load_bundle that inserts the bundle as load_bundle built it.
insert_bundle_as_loaded(self, lang, loaded) ==
    IF ~IsOk(loaded) THEN Return(self, loaded)
    ELSE Return([self EXCEPT !.bundles = Put(@, lang, loaded.value),
                             !.parsed = @ \cup {lang}],
                Ok(Unit))

\* try_load_bundle after load_bundle(lang)?: isolation is turned off in an
\* engine that does not isolate, and the bundle is inserted.
insert_bundle(self, lang, loaded) ==
    IF ~IsOk(loaded) THEN Return(self, loaded)
    ELSE Return([self EXCEPT !.bundles =
                    Put(@, lang, IF ~self.use_isolating
                                 THEN set_use_isolating(loaded.value, FALSE)
                                 ELSE loaded.value),
                             !.parsed = @ \cup {lang}],
                Ok(Unit))

\* Localization::try_load_bundle.
try_load_bundle(self, lang) == insert_bundle(self, lang, load_bundle(lang))

\* The match of ensure_bundle on the first try_load_bundle.  On Err the
\* second try_load_bundle is given the same locale again (not the fallback
\* locale the warning names), and its failure is an expect.
ensure_bundle_match(first, locale) ==
    IF ~IsOk(first.ret)
    THEN expect(try_load_bundle(first.self, locale), "failed to load fallback bundle!?")
    ELSE Return(first.self, Ok(Unit))

\* ensure_bundle without the has_bundle test: every call loads.
ensure_bundle_always_loads(self) ==
    ensure_bundle_match(try_load_bundle(self, self.current_locale), self.current_locale)

\* Localization::ensure_bundle.
ensure_bundle(self) ==
    IF ~has_bundle(self, self.current_locale)
    THEN ensure_bundle_match(try_load_bundle(self, self.current_locale),
                             self.current_locale)
    ELSE Return(self, Ok(Unit))

\* get_current_bundle with the two branches in the other order: the
\* fallback bundle is used whenever it is loaded.
get_current_bundle_prefers_fallback(self) ==
    IF has_bundle(self, self.fallback_locale)
    THEN get_bundle(self, self.fallback_locale)
    ELSE get_bundle(self, self.current_locale)

\* Localization::get_current_bundle.
get_current_bundle(self) ==
    IF has_bundle(self, self.current_locale)
    THEN get_bundle(self, self.current_locale)
    ELSE get_bundle(self, self.fallback_locale)

(***************************************************************************)
(* Lookups.                                                                 *)
(***************************************************************************)
\* Localization::get_cached_string_no_args.
get_cached_string_no_args(self, lang, id) ==
    IF lang \in DOMAIN self.string_cache /\ id \in DOMAIN self.string_cache[lang]
    THEN Ok(self.string_cache[lang][id])
    ELSE NotFound(id)

\* cache_string with insert in place of entry().or_default(): the locale's
\* cache is replaced by one holding the new entry alone.
cache_string_replaces_locale_cache(self, locale, id, result) ==
    Return([self EXCEPT !.string_cache = Put(@, locale, Put(EmptyMap, id, result))],
           Unit)

\* cache_string that stores under available locales alone.
cache_string_checks_available(self, locale, id, result) ==
    IF locale \notin Range(self.available_locales) THEN Return(self, Unit)
    ELSE Return([self EXCEPT !.string_cache =
                     Put(@, locale, Put(IF locale \in DOMAIN @ THEN @[locale] ELSE EmptyMap,
                                        id, result))],
                Unit)

\* Localization::cache_string.
cache_string(self, locale, id, result) ==
    Return([self EXCEPT !.string_cache =
                Put(@, locale, Put(IF locale \in DOMAIN @ THEN @[locale] ELSE EmptyMap,
                                   id, result))],
           Unit)

\* FluentBundle::get_message.
get_message(bundle, id) ==
    IF id \in DOMAIN bundle.messages THEN Ok(bundle.messages[id]) ELSE NotFound(id)

\* format_message that renders a missing message as its key.
format_message_missing_as_key(bundle, message, id, args) ==
    IF ~IsOk(message) THEN Ok(<< id >>)
    ELSE IF ~message.value.has_value THEN NoValue(id)
    ELSE Ok(format_pattern(bundle, message.value.pattern, args))

\* format_message that renders a message without a value as the empty text.
format_message_no_value_as_empty(bundle, message, id, args) ==
    IF ~IsOk(message) THEN NotFound(id)
    ELSE IF ~message.value.has_value THEN Ok(<< >>)
    ELSE Ok(format_pattern(bundle, message.value.pattern, args))

\* message.value() and bundle.format_pattern(pattern, args, &mut errors).
format_message(bundle, message, id, args) ==
    IF ~IsOk(message) THEN NotFound(id)
    ELSE IF ~message.value.has_value THEN NoValue(id)
    ELSE Ok(format_pattern(bundle, message.value.pattern, args))

\* The block of get_cached_string that renders id from the current bundle.
format_with(bundle, id, args) ==
    IF ~IsOk(bundle) THEN bundle
    ELSE format_message(bundle.value, get_message(bundle.value, id), id, args)

format_from_bundle(self, id, args) == format_with(get_current_bundle(self), id, args)

\* cache_result without the args.is_none() test: every rendered text is cached.
cache_result_with_args_too(self, id, args, result) ==
    IF ~IsOk(result) THEN Return(self, result)
    ELSE Return(cache_string(self, self.current_locale, id, result.value).self, result)

\* cache_result that caches the key as the text of a failed argument-free
\* lookup.
cache_result_caches_failures(self, id, args, result) ==
    IF ~IsOk(result)
    THEN IF ~args.some
         THEN Return(cache_string(self, self.current_locale, id, << id >>).self, result)
         ELSE Return(self, result)
    ELSE IF ~args.some
         THEN Return(cache_string(self, self.current_locale, id, result.value).self, result)
         ELSE Return(self, result)

\* The end of get_cached_string: an error is returned, a text rendered
\* without arguments is cached under the current locale and returned, a text
\* rendered with arguments is returned.
cache_result(self, id, args, result) ==
    IF ~IsOk(result) THEN Return(self, result)
    ELSE IF ~args.some
         THEN Return(cache_string(self, self.current_locale, id, result.value).self, result)
         ELSE Return(self, result)

\* lookup without the args.is_none() test: a cached text answers every call.
lookup_cache_first(self, id, args, cached) ==
    IF IsOk(cached) THEN Return(self, cached)
    ELSE cache_result(self, id, args, format_from_bundle(self, id, args))

\* get_cached_string after ensure_bundle()?: without arguments a cached text
\* is returned; otherwise the text is rendered from the bundle.
lookup(self, id, args, cached) ==
    IF ~args.some /\ IsOk(cached) THEN Return(self, cached)
    ELSE cache_result(self, id, args, format_from_bundle(self, id, args))

get_cached_string_ensured(ensured, id, args) ==
    IF ~IsOk(ensured.ret) THEN ensured
    ELSE lookup(ensured.self, id, args,
                get_cached_string_no_args(ensured.self, ensured.self.current_locale, id))

\* Localization::get_cached_string.
get_cached_string(self, id, args) ==
    get_cached_string_ensured(ensure_bundle(self), id, args)

\* Localization::get_string.
get_string(self, id) == get_cached_string(self, id, None)

(***************************************************************************)
(* Locale switch and cache management.                                      *)
(***************************************************************************)
\* set_locale that returns early when the locale is already current.
set_locale_skips_current(self, locale) ==
    IF locale \notin Range(self.available_locales)
    THEN Return(self, LocaleNotAvailable(locale))
    ELSE IF locale = self.current_locale THEN Return(self, Ok(Unit))
    ELSE Return([self EXCEPT !.current_locale = locale, !.string_cache = EmptyMap],
                Ok(Unit))

\* set_locale that clears the string cache before it validates the locale.
set_locale_clears_first(self, locale) ==
    IF locale \notin Range(self.available_locales)
    THEN Return([self EXCEPT !.string_cache = EmptyMap], LocaleNotAvailable(locale))
    ELSE Return([self EXCEPT !.current_locale = locale, !.string_cache = EmptyMap],
                Ok(Unit))

\* set_locale that adds a locale it does not know to the registry.
set_locale_registers_locale(self, locale) ==
    IF locale \notin Range(self.available_locales)
    THEN Return([self EXCEPT !.available_locales = Append(@, locale),
                             !.current_locale = locale, !.string_cache = EmptyMap],
                Ok(Unit))
    ELSE Return([self EXCEPT !.current_locale = locale, !.string_cache = EmptyMap],
                Ok(Unit))

\* set_locale that installs the locale before it validates it.
set_locale_installs_before_check(self, locale) ==
    IF locale \notin Range(self.available_locales)
    THEN Return([self EXCEPT !.current_locale = locale], LocaleNotAvailable(locale))
    ELSE Return([self EXCEPT !.current_locale = locale, !.string_cache = EmptyMap],
                Ok(Unit))

\* set_locale without the availability check.
set_locale_accepts_any(self, locale) ==
    Return([self EXCEPT !.current_locale = locale, !.string_cache = EmptyMap], Ok(Unit))

\* set_locale that installs the locale and keeps the formatted strings of
\* the locale it leaves.
set_locale_keeps_strings(self, locale) ==
    IF locale \notin Range(self.available_locales)
    THEN Return(self, LocaleNotAvailable(locale))
    ELSE Return([self EXCEPT !.current_locale = locale], Ok(Unit))

\* Localization::set_locale.
set_locale(self, locale) ==
    IF locale \notin Range(self.available_locales)
    THEN Return(self, LocaleNotAvailable(locale))
    ELSE Return([self EXCEPT !.current_locale = locale, !.string_cache = EmptyMap],
                Ok(Unit))

\* Localization::get_locale_native_name.
get_locale_native_name(self, locale) ==
    IF locale \in DOMAIN self.locale_native_names
    THEN Some(self.locale_native_names[locale])
    ELSE None

\* clear_cache that clears the parsed bundles alone.
clear_cache_keeps_strings(self) ==
    Return([self EXCEPT !.bundles = EmptyMap], Ok(Unit))

\* Localization::clear_cache.
clear_cache(self) ==
    Return([self EXCEPT !.bundles = EmptyMap, !.string_cache = EmptyMap], Ok(Unit))

\* limit_string_cache_size that also clears a cache holding exactly the limit.
limit_string_cache_size_at_limit(self, max_strings_per_locale) ==
    Return([self EXCEPT !.string_cache =
                [l \in DOMAIN @ |->
                    IF Cardinality(DOMAIN @[l]) >= max_strings_per_locale
                    THEN EmptyMap
                    ELSE @[l]]],
           Ok(Unit))

\* Localization::limit_string_cache_size.
limit_string_cache_size(self, max_strings_per_locale) ==
    Return([self EXCEPT !.string_cache =
                [l \in DOMAIN @ |->
                    IF Cardinality(DOMAIN @[l]) > max_strings_per_locale
                    THEN EmptyMap
                    ELSE @[l]]],
           Ok(Unit))

\* keys().cloned().collect(): the keys of a HashMap as a Vec, each key once,
\* in an order the map chooses.
RECURSIVE collect(_)
collect(keys) ==
    IF keys = {} THEN << >>
    ELSE LET k == CHOOSE x \in keys : TRUE IN << k >> \o collect(keys \ {k})

\* values().map(|m| m.len()).sum() over the per-locale caches.
RECURSIVE sum_of_lens(_, _)
sum_of_lens(cache, ls) ==
    IF ls = {} THEN 0
    ELSE LET l == CHOOSE x \in ls : TRUE
         IN Cardinality(DOMAIN cache[l]) + sum_of_lens(cache, ls \ {l})

\* get_cache_stats that reports the number of per-locale caches as the
\* number of cached strings.
get_cache_stats_counts_locales(self) ==
    [resource_cache_size |-> Cardinality(DOMAIN self.bundles),
     string_cache_size |-> Cardinality(DOMAIN self.string_cache),
     cached_locales |-> collect(DOMAIN self.bundles)]

\* Localization::get_cache_stats.
get_cache_stats(self) ==
    [resource_cache_size |-> Cardinality(DOMAIN self.bundles),
     string_cache_size |-> sum_of_lens(self.string_cache, DOMAIN self.string_cache),
     cached_locales |-> collect(DOMAIN self.bundles)]

(***************************************************************************)
(* Key normalization.  Raw and canonical keys are sequences of characters.  *)
(***************************************************************************)
AsciiAlphabetic ==
    {"A", "B", "C", "D", "E", "F", "G", "H", "I", "J", "K", "L", "M",
     "N", "O", "P", "Q", "R", "S", "T", "U", "V", "W", "X", "Y", "Z",
     "a", "b", "c", "d", "e", "f", "g", "h", "i", "j", "k", "l", "m",
     "n", "o", "p", "q", "r", "s", "t", "u", "v", "w", "x", "y", "z"}
AsciiDigit == {"0", "1", "2", "3", "4", "5", "6", "7", "8", "9"}

\* trim_matches('_').
RECURSIVE trim_start(_)
trim_start(s) == IF s # << >> /\ Head(s) = "_" THEN trim_start(Tail(s)) ELSE s
RECURSIVE trim_end(_)
trim_end(s) ==
    IF s # << >> /\ s[Len(s)] = "_" THEN trim_end(SubSeq(s, 1, Len(s) - 1)) ELSE s
trim_matches(s) == trim_end(trim_start(s))

\* fixup_key: each character outside A-Z a-z 0-9 - _ becomes one underscore,
\* then the underscores at both ends are trimmed.
fixup_key(s) ==
    trim_matches([i \in DOMAIN s |->
                    IF s[i] \in AsciiAlphabetic \cup AsciiDigit \cup {"-", "_"}
                    THEN s[i] ELSE "_"])

\* simple_hash: the first two bytes of the MD5 digest of the comment, as four
\* lowercase hexadecimal digits.
simple_hash(comment) ==
    CASE comment = "greeting" -> << "6", "9", "9", "e" >>
      [] comment = "farewell" -> << "f", "d", "0", "6" >>
      [] comment = "comment" -> << "0", "6", "d", "4" >>
      [] comment = "" -> << "d", "4", "1", "d" >>
      [] comment = "theme button" -> << "c", "d", "e", "6" >>
      [] comment = "messages button" -> << "c", "d", "e", "6" >>

\* Localization::get_ftl_key.
get_ftl_key(self, cache_key) ==
    IF cache_key \in DOMAIN self.normalized_key_cache
    THEN Ok(self.normalized_key_cache[cache_key])
    ELSE NotFound(cache_key)

\* insert_ftl_key that prefixes k_ only when nothing is left of the key.
insert_ftl_key_prefixes_empty_only(self, cache_key, comment) ==
    LET fixed == fixup_key(cache_key)
        result == IF fixed = << >> THEN << "k", "_" >> \o fixed ELSE fixed
        hashed == result \o << "_" >> \o simple_hash(comment)
    IN Return([self EXCEPT !.normalized_key_cache = Put(@, cache_key, hashed)], Unit)

\* insert_ftl_key that appends no digest of the comment.
insert_ftl_key_without_hash(self, cache_key, comment) ==
    LET fixed == fixup_key(cache_key)
        result == IF fixed = << >> \/ Head(fixed) \notin AsciiAlphabetic
                  THEN << "k", "_" >> \o fixed
                  ELSE fixed
    IN Return([self EXCEPT !.normalized_key_cache = Put(@, cache_key, result)], Unit)

\* Localization::insert_ftl_key.
insert_ftl_key(self, cache_key, comment) ==
    LET fixed == fixup_key(cache_key)
        result == IF fixed = << >> \/ Head(fixed) \notin AsciiAlphabetic
                  THEN << "k", "_" >> \o fixed
                  ELSE fixed
        hashed == result \o << "_" >> \o simple_hash(comment)
    IN Return([self EXCEPT !.normalized_key_cache = Put(@, cache_key, hashed)], Unit)

\* normalized_ftl_key without the get_ftl_key test: every call normalizes
\* the key with the comment it is given.
normalized_ftl_key_always_inserts(self, key, comment) ==
    Return(insert_ftl_key(self, key, comment).self,
           get_ftl_key(insert_ftl_key(self, key, comment).self, key))

\* Localization::normalized_ftl_key.
normalized_ftl_key(self, key, comment) ==
    LET found == get_ftl_key(self, key)
        inserted == insert_ftl_key(self, key, comment).self
    IN IF IsOk(found) THEN Return(self, found)
       ELSE Return(inserted, get_ftl_key(inserted, key))

(***************************************************************************)
(* Locale strings and their parsing (str::parse::<LanguageIdentifier>).  A  *)
(* locale string is a sequence of characters.                               *)
(***************************************************************************)
UpperCase ==
    << "A", "B", "C", "D", "E", "F", "G", "H", "I", "J", "K", "L", "M",
       "N", "O", "P", "Q", "R", "S", "T", "U", "V", "W", "X", "Y", "Z" >>
LowerCase ==
    << "a", "b", "c", "d", "e", "f", "g", "h", "i", "j", "k", "l", "m",
       "n", "o", "p", "q", "r", "s", "t", "u", "v", "w", "x", "y", "z" >>

to_ascii_lowercase(t) ==
    [i \in DOMAIN t |->
        IF t[i] \in Range(UpperCase)
        THEN LowerCase[CHOOSE k \in 1..26 : UpperCase[k] = t[i]] ELSE t[i]]
to_ascii_uppercase(t) ==
    [i \in DOMAIN t |->
        IF t[i] \in Range(LowerCase)
        THEN UpperCase[CHOOSE k \in 1..26 : LowerCase[k] = t[i]] ELSE t[i]]
to_ascii_titlecase(t) ==
    [i \in DOMAIN t |->
        IF i = 1 THEN to_ascii_uppercase(t)[i] ELSE to_ascii_lowercase(t)[i]]

IsAlphabetic(t) == \A i \in DOMAIN t : t[i] \in AsciiAlphabetic
IsNumeric(t) == \A i \in DOMAIN t : t[i] \in AsciiDigit
IsAlphanumeric(t) == \A i \in DOMAIN t : t[i] \in AsciiAlphabetic \cup AsciiDigit

ParserError(s) == [kind |-> "ParserError", value |-> s]

\* The subtags of a locale string: the pieces between - or _.
RECURSIVE split(_)
split(s) ==
    IF \A i \in DOMAIN s : s[i] \notin {"-", "_"} THEN << s >>
    ELSE LET i == CHOOSE k \in DOMAIN s :
                     /\ s[k] \in {"-", "_"}
                     /\ \A j \in 1..(k - 1) : s[j] \notin {"-", "_"}
         IN << SubSeq(s, 1, i - 1) >> \o split(SubSeq(s, i + 1, Len(s)))

\* Language: 2, 3 or 5 to 8 letters, in lower case; und is the empty language.
IsLanguage(t) == Len(t) \in {2, 3, 5, 6, 7, 8} /\ IsAlphabetic(t)
Language(t) ==
    IF to_ascii_lowercase(t) = << "u", "n", "d" >> THEN << >> ELSE to_ascii_lowercase(t)
\* Script: 4 letters, in title case.
IsScript(t) == Len(t) = 4 /\ IsAlphabetic(t)
\* Region: 2 letters, in upper case, or 3 digits.
IsRegion(t) == (Len(t) = 2 /\ IsAlphabetic(t)) \/ (Len(t) = 3 /\ IsNumeric(t))
\* Variant: 5 to 8 letters and digits, or a digit and 3 letters or digits.
IsVariant(t) ==
    \/ Len(t) \in 5..8 /\ IsAlphanumeric(t)
    \/ Len(t) = 4 /\ t[1] \in AsciiDigit /\ IsAlphanumeric(t)

\* The subtags after the language: a script, then a region, then variants;
\* any other subtag (an extension singleton such as u) is an error.
RECURSIVE parse_subtags(_, _, _, _)
parse_subtags(s, subtags, position, id) ==
    IF subtags = << >> THEN Ok(id)
    ELSE IF position = 1 /\ IsScript(Head(subtags))
    THEN parse_subtags(s, Tail(subtags), 2,
                       [id EXCEPT !.script = to_ascii_titlecase(Head(subtags))])
    ELSE IF position <= 2 /\ IsRegion(Head(subtags))
    THEN parse_subtags(s, Tail(subtags), 3,
                       [id EXCEPT !.region = to_ascii_uppercase(Head(subtags))])
    ELSE IF IsVariant(Head(subtags))
    THEN parse_subtags(s, Tail(subtags), 3,
                       [id EXCEPT !.variants = @ \cup {to_ascii_lowercase(Head(subtags))}])
    ELSE ParserError(s)

parse_language(s, subtags) ==
    IF ~IsLanguage(Head(subtags)) THEN ParserError(s)
    ELSE parse_subtags(s, Tail(subtags), 1, LangId(Language(Head(subtags)), << >>))

\* locale_str.parse::<LanguageIdentifier>().
parse(s) == parse_language(s, split(s))

(***************************************************************************)
(* fluent_langneg::negotiate_languages with the Filtering strategy.         *)
(***************************************************************************)
\* A subtag matches when it is equal, or when a side taken as a range has
\* none.
subtag_matches(s1, s2, as_range1, as_range2, none) ==
    (as_range1 /\ s1 = none) \/ (as_range2 /\ s2 = none) \/ s1 = s2

\* LanguageIdentifier::matches.
matches(self, other, self_as_range, other_as_range) ==
    /\ subtag_matches(self.language, other.language, self_as_range, other_as_range, << >>)
    /\ subtag_matches(self.script, other.script, self_as_range, other_as_range, << >>)
    /\ subtag_matches(self.region, other.region, self_as_range, other_as_range, << >>)
    /\ subtag_matches(self.variants, other.variants, self_as_range, other_as_range, {})

\* The likely subtags the library has without its cldr feature.
REGION_MATCHING_KEYS ==
    {<< "a", "z" >>, << "b", "g" >>, << "c", "s" >>, << "d", "e" >>, << "e", "s" >>,
     << "f", "i" >>, << "f", "r" >>, << "h", "u" >>, << "i", "t" >>, << "l", "t" >>,
     << "l", "v" >>, << "n", "l" >>, << "p", "l" >>, << "r", "o" >>, << "r", "u" >>}

Subtags(l, sc, r) == [language |-> l, script |-> sc, region |-> r, variants |-> {}]

\* maximize: the identifier with its likely subtags, and whether it has any.
maximize(req) ==
    LET to(l, sc, r) ==
            [changed |-> TRUE,
             req |-> [req EXCEPT !.language = l, !.script = sc, !.region = r]]
        Latn == << "L", "a", "t", "n" >>
        Hant == << "H", "a", "n", "t" >>
    IN CASE req = Subtags(<< "e", "n" >>, << >>, << >>) ->
                to(<< "e", "n" >>, Latn, << "U", "S" >>)
         [] req = Subtags(<< "f", "r" >>, << >>, << >>) ->
                to(<< "f", "r" >>, Latn, << "F", "R" >>)
         [] req = Subtags(<< "s", "r" >>, << >>, << >>) ->
                to(<< "s", "r" >>, << "C", "y", "r", "l" >>, << "S", "R" >>)
         [] req = Subtags(<< "s", "r" >>, << >>, << "R", "U" >>) ->
                to(<< "s", "r" >>, Latn, << "S", "R" >>)
         [] req = Subtags(<< "a", "z" >>, << >>, << "I", "R" >>) ->
                to(<< "a", "z" >>, << "A", "r", "a", "b" >>, << "I", "R" >>)
         [] req = Subtags(<< "z", "h" >>, << >>, << "G", "B" >>) ->
                to(<< "z", "h" >>, Hant, << "G", "B" >>)
         [] req = Subtags(<< "z", "h" >>, << >>, << "U", "S" >>) ->
                to(<< "z", "h" >>, Hant, << "U", "S" >>)
         [] OTHER ->
                IF req.language \in REGION_MATCHING_KEYS
                THEN [changed |-> TRUE,
                      req |-> [req EXCEPT !.region = to_ascii_uppercase(req.language)]]
                ELSE [changed |-> FALSE, req |-> req]

\* One pass over the available locales that are left: those that match the
\* request are moved, in their order, to the end of the supported ones.
test_strategy(st, req, self_as_range, other_as_range) ==
    [supported |-> st.supported \o
                   SelectSeq(st.available,
                             LAMBDA l : matches(l, req, self_as_range, other_as_range)),
     available |-> SelectSeq(st.available,
                             LAMBDA l : ~matches(l, req, self_as_range, other_as_range))]

\* 6) the region as a range.
region_as_range(st, req) ==
    test_strategy(st, [req EXCEPT !.region = << >>], TRUE, TRUE)

\* 5) the likely subtags without the region.
likely_without_region(st, m) ==
    region_as_range(IF m.changed THEN test_strategy(st, m.req, TRUE, FALSE) ELSE st, m.req)

\* 4) the variants as a range.
variants_as_range(st, req) ==
    likely_without_region(test_strategy(st, [req EXCEPT !.variants = {}], TRUE, TRUE),
                          maximize([req EXCEPT !.variants = {}, !.region = << >>]))

\* 3) the likely subtags of the request.
likely_subtags(st, m) ==
    variants_as_range(IF m.changed THEN test_strategy(st, m.req, TRUE, FALSE) ELSE st, m.req)

\* 1) the request itself, 2) the available locales as ranges; the steps
\* with likely subtags are skipped for a request with no language.
filter_request(st, req) ==
    IF req.language = << >>
    THEN test_strategy(test_strategy(st, req, FALSE, FALSE), req, TRUE, FALSE)
    ELSE likely_subtags(test_strategy(test_strategy(st, req, FALSE, FALSE), req, TRUE, FALSE),
                        maximize(req))

RECURSIVE filter_requests(_, _)
filter_requests(st, requested) ==
    IF requested = << >> THEN st
    ELSE filter_requests(filter_request(st, Head(requested)), Tail(requested))

\* filter_matches.
filter_matches(requested, available) ==
    filter_requests([supported |-> << >>, available |-> available], requested).supported

\* negotiate_languages(requested, available, Some(default), Filtering): the
\* default is added at the end when the matches do not hold it.
negotiate_languages(requested, available, default) ==
    IF default \in Range(filter_matches(requested, available))
    THEN filter_matches(requested, available)
    ELSE filter_matches(requested, available) \o << default >>

(***************************************************************************)
(* extract_language_region.  A string is the sequence of its characters;    *)
(* "U+00E9" stands for the one character e with acute accent, which UTF-8   *)
(* encodes in two bytes.                                                    *)
(***************************************************************************)
\* str::len: the length in bytes of the UTF-8 encoding.
RECURSIVE len(_)
len(s) ==
    IF s = << >> THEN 0
    ELSE (IF Head(s) = "U+00E9" THEN 2 ELSE 1) + len(Tail(s))

\* str::split('-').collect(): the pieces between hyphens, empty ones included.
RECURSIVE str_split(_)
str_split(s) ==
    IF \A i \in DOMAIN s : s[i] # "-" THEN << s >>
    ELSE LET i == CHOOSE k \in DOMAIN s :
                     /\ s[k] = "-"
                     /\ \A j \in 1..(k - 1) : s[j] # "-"
         IN << SubSeq(s, 1, i - 1) >> \o str_split(SubSeq(s, i + 1, Len(s)))

\* extract_language_region that measures the second part in characters.
extract_language_region_counts_chars(locale_str) ==
    LET parts == str_split(locale_str)
    IN IF Len(parts) >= 2
       THEN IF Len(parts[2]) >= 2 THEN parts[1] \o << "-" >> \o parts[2]
            ELSE parts[1]
       ELSE locale_str

\* Localization::extract_language_region.
extract_language_region(locale_str) ==
    LET parts == str_split(locale_str)
    IN IF Len(parts) >= 2
       THEN IF len(parts[2]) >= 2 THEN parts[1] \o << "-" >> \o parts[2]
            ELSE parts[1]
       ELSE locale_str

(***************************************************************************)
(* Locale negotiation.                                                      *)
(***************************************************************************)
es_ES_str == << "e", "s", "-", "E", "S" >>
en_US_str == << "e", "n", "-", "U", "S" >>

\* The language of the one reported locale, or "unknown".
primary_lang(primary) ==
    IF IsOk(parse(primary)) THEN parse(primary).value.language
    ELSE << "u", "n", "k", "n", "o", "w", "n" >>

\* with_fallbacks that follows every language by en-US alone.
with_fallbacks_english_only(system_locales) ==
    IF Len(system_locales) = 1 THEN system_locales \o << en_US_str >>
    ELSE system_locales

\* The fallbacks pushed after a single reported locale.
with_fallbacks(system_locales) ==
    IF Len(system_locales) = 1
    THEN CASE primary_lang(system_locales[1]) = << "u", "k" >> ->
                  system_locales \o << es_ES_str, en_US_str >>
           [] primary_lang(system_locales[1]) = << "e", "s" >> ->
                  system_locales \o << en_US_str >>
           [] OTHER -> system_locales \o << en_US_str >>
    ELSE system_locales

\* parsed_system_locales: the strings that parse, in their order.
RECURSIVE parse_all(_)
parse_all(system_locales) ==
    IF system_locales = << >> THEN << >>
    ELSE (IF IsOk(parse(Head(system_locales)))
          THEN << parse(Head(system_locales)).value >> ELSE << >>)
         \o parse_all(Tail(system_locales))

\* The language-only fallback: the first available locale with the language
\* of the earliest preference that has one, or en-US.
RECURSIVE language_only(_, _)
language_only(parsed_system_locales, available) ==
    IF parsed_system_locales = << >> THEN EN_US
    ELSE IF \E i \in DOMAIN available :
               available[i].language = Head(parsed_system_locales).language
    THEN available[CHOOSE i \in DOMAIN available :
            /\ available[i].language = Head(parsed_system_locales).language
            /\ \A j \in 1..(i - 1) :
                  available[j].language # Head(parsed_system_locales).language]
    ELSE language_only(Tail(parsed_system_locales), available)

\* negotiated.first(), or the language-only fallback when there is none.
first_or_language_only(negotiated, parsed_system_locales, available) ==
    IF negotiated # << >> THEN Head(negotiated)
    ELSE language_only(parsed_system_locales, available)

\* negotiate_parsed that returns the negotiated locale that comes first in
\* the available list.
negotiate_parsed_by_available_order(parsed_system_locales, available) ==
    IF parsed_system_locales = << >> THEN EN_US
    ELSE first_or_language_only(
             SelectSeq(available,
                       LAMBDA l : l \in Range(negotiate_languages(parsed_system_locales,
                                                                  available, EN_US)))
             \o negotiate_languages(parsed_system_locales, available, EN_US),
             parsed_system_locales, available)

\* The negotiation once the strings are parsed.
negotiate_parsed(parsed_system_locales, available) ==
    IF parsed_system_locales = << >> THEN EN_US
    ELSE first_or_language_only(
             negotiate_languages(parsed_system_locales, available, EN_US),
             parsed_system_locales, available)

\* negotiation that stops at a string that does not parse.
negotiate_system_locale_stops_at_unparsed(system_locales, available) ==
    IF system_locales = << >>
       \/ \E i \in DOMAIN with_fallbacks(system_locales) :
             ~IsOk(parse(with_fallbacks(system_locales)[i]))
    THEN EN_US
    ELSE negotiate_parsed(parse_all(with_fallbacks(system_locales)), available)

\* Localization::negotiate_system_locale_with_preferences; system_locales is
\* what sys_locale::get_locales() reports.
negotiate_system_locale_with_preferences(system_locales, available) ==
    IF system_locales = << >> THEN EN_US
    ELSE negotiate_parsed(parse_all(with_fallbacks(system_locales)), available)

(***************************************************************************)
(* Construction.                                                            *)
(***************************************************************************)
DefaultAvailableLocales ==
    << EN_US, EN_XA, DE, ES_419, ES_ES, FR, PT_BR, TH, ZH_CN, ZH_TW >>

NativeName(lang) ==
    CASE lang = EN_US -> "English (US)"
      [] lang = EN_XA -> "English (Pseudolocale)"
      [] lang = DE -> "Deutsch"
      [] lang = ES_419 -> "Espanol (Latinoamerica)"
      [] lang = ES_ES -> "Espanol (Espana)"
      [] lang = FR -> "Francais"
      [] lang = PT_BR -> "Portugues (Brasil)"
      [] lang = TH -> "Thai"
      [] lang = ZH_CN -> "Jianti Zhongwen"
      [] lang = ZH_TW -> "Fanti Zhongwen"

DefaultNativeNames == [l \in Range(DefaultAvailableLocales) |-> NativeName(l)]

\* What sys_locale::get_locales() reports where the engine is constructed:
\* nothing, or fr-FR.
SystemLocaleInputs == {<< >>, << << "f", "r", "-", "F", "R" >> >>}

\* The locales negotiation selects for them.
NegotiatedLocales ==
    {negotiate_system_locale_with_preferences(system_locales, DefaultAvailableLocales) :
        system_locales \in SystemLocaleInputs}

\* Localization::default with the negotiated locale; no_bidi turns
\* use_isolating off.
Default(negotiated, isolating) ==
    [current_locale |-> negotiated,
     available_locales |-> DefaultAvailableLocales,
     fallback_locale |-> EN_US,
     locale_native_names |-> DefaultNativeNames,
     string_cache |-> EmptyMap,
     normalized_key_cache |-> EmptyMap,
     bundles |-> EmptyMap,
     use_isolating |-> isolating,
     parsed |-> {}]

(***************************************************************************)
(* File storage.  The file system maps each directory that exists to its    *)
(* entries; an entry is a regular file with its contents, or a directory.   *)
(* A file name is one path component, so directory.join(file_name) is the   *)
(* entry file_name of directory.                                            *)
(***************************************************************************)
RegularFile(data) == [is_file |-> TRUE, contents |-> data]
SubDirectory == [is_file |-> FALSE, contents |-> ""]

Remove(m, k) == [x \in (DOMAIN m) \ {k} |-> m[x]]

\* Error::Io with the kind of the io::Error, and Error::Generic with its
\* message and the file name formatted into it.
Io(kind) == [kind |-> "Io", value |-> kind]
Generic(msg, file_name) == [kind |-> "Generic", value |-> << msg, file_name >>]

\* Path::exists and Path::is_file of directory.join(file_name).
exists(fs, directory, file_name) ==
    directory \in DOMAIN fs /\ file_name \in DOMAIN fs[directory]

is_file(fs, directory, file_name) ==
    exists(fs, directory, file_name) /\ fs[directory][file_name].is_file

\* The entries of read_dir whose metadata says regular file.
regular_files(fs, directory) ==
    {n \in DOMAIN fs[directory] : fs[directory][n].is_file}

get_files(fs, directory) ==
    IF directory \notin DOMAIN fs THEN Io("NotFound")
    ELSE Ok([n \in regular_files(fs, directory) |-> fs[directory][n].contents])

get_file_names(fs, directory) ==
    IF directory \notin DOMAIN fs THEN Io("NotFound")
    ELSE Ok(collect(regular_files(fs, directory)))

get_file(fs, directory, file_name) ==
    IF exists(fs, directory, file_name) /\ is_file(fs, directory, file_name)
    THEN Ok(fs[directory][file_name].contents)
    ELSE Generic("Requested file was not found", file_name)

\* fs::write: creates the file or truncates it, and fails on a directory.
fs_write_keeps_existing(fs, directory, file_name, data) ==
    IF exists(fs, directory, file_name) /\ ~is_file(fs, directory, file_name)
    THEN Return(fs, Io("IsADirectory"))
    ELSE IF exists(fs, directory, file_name) THEN Return(fs, Ok(Unit))
    ELSE Return([fs EXCEPT ![directory] = Put(@, file_name, RegularFile(data))],
                Ok(Unit))

fs_write(fs, directory, file_name, data) ==
    IF exists(fs, directory, file_name) /\ ~is_file(fs, directory, file_name)
    THEN Return(fs, Io("IsADirectory"))
    ELSE Return([fs EXCEPT ![directory] = Put(@, file_name, RegularFile(data))],
                Ok(Unit))

\* The directory is created first when it does not exist; a failed write
\* leaves it created.
write_file(fs, directory, file_name, data) ==
    LET created == IF directory \notin DOMAIN fs THEN Put(fs, directory, EmptyMap)
                   ELSE fs
    IN fs_write(created, directory, file_name, data)

delete_file_ignores_missing(fs, directory, file_name) ==
    IF exists(fs, directory, file_name) /\ is_file(fs, directory, file_name)
    THEN Return([fs EXCEPT ![directory] = Remove(@, file_name)], Ok(Unit))
    ELSE Return(fs, Ok(Unit))

delete_file(fs, directory, file_name) ==
    IF exists(fs, directory, file_name) /\ is_file(fs, directory, file_name)
    THEN Return([fs EXCEPT ![directory] = Remove(@, file_name)], Ok(Unit))
    ELSE Return(fs, Generic("Requested file to delete was not found", file_name))

\* The file system the storage calls start from: one directory that exists
\* and holds a subdirectory, and none at the other path.
InitialFiles == [d \in {"existing"} |-> [n \in {"sub"} |-> SubDirectory]]

DirectoryInputs == {"existing", "created"}
FileNameInputs == {"file0.txt", "file1.txt", "sub"}
DataInputs == {"test", "other"}

(***************************************************************************)
(* Inputs of the calls.                                                     *)
(***************************************************************************)
MaxLimit == 2

KeyInputs == {"greeting", "welcome", "title", "only_en", "missing"}
ArgKeyInputs == {"greeting", "welcome", "title", "missing"}
ArgsInputs == {Some([name |-> "Alice"]), Some([name |-> "Bob"])}
LocaleInputs == {EN_US, FR, IT}
StoredInputs ==
    {[locale |-> EN_US, id |-> "greeting", result |-> << "stored" >>],
     [locale |-> EN_US, id |-> "missing", result |-> << "stored" >>],
     [locale |-> IT, id |-> "missing", result |-> << "stored" >>]}
RawKeyInputs == {<< "a", ".", "b" >>}
CommentInputs == {"greeting", "farewell"}

\* Raw keys of up to MaxRawLen characters over a letter, a digit, the hyphen,
\* the underscore and two characters a Fluent identifier cannot hold.
MaxRawLen == 3
KeyAlphabet == {"a", "7", "-", "_", ".", " "}
AllRawKeys == UNION {[1..n -> KeyAlphabet] : n \in 0..MaxRawLen}
AllComments == {"greeting", "", "theme button"}

\* Raw keys that differ in one character a Fluent identifier cannot hold (or
\* in the underscore it becomes), and comments of which two have the same
\* first two digest bytes.
SameStemKeyInputs ==
    {<< "a", ".", "b" >>, << "a", "#", "b" >>, << "a", "_", "b" >>, << ".", "a", " ", "b" >>}
SameStemCommentInputs == {"greeting", "theme button", "messages button"}

\* Locale strings a host reports: a language, language and region, a script
\* between them with _ as the separator, a tag no locale is shipped for, a
\* tag with a Unicode extension and the POSIX locale C (neither parses).
fr_str == << "f", "r" >>
es_MX_str == << "e", "s", "-", "M", "X" >>
uk_str == << "u", "k" >>
xx_YY_str == << "x", "x", "-", "Y", "Y" >>
zh_Hant_HK_str == << "z", "h", "_", "H", "a", "n", "t", "_", "H", "K" >>
fr_FR_u_mu_celsius_str ==
    << "f", "r", "-", "F", "R", "-", "u", "-", "m", "u", "-",
       "c", "e", "l", "s", "i", "u", "s" >>
C_str == << "C" >>
LocaleStrings ==
    {fr_str, en_US_str, es_MX_str, uk_str, xx_YY_str, zh_Hant_HK_str,
     fr_FR_u_mu_celsius_str, C_str}

\* The lists of up to MaxPreferences of them.
MaxPreferences == 2
PreferenceLists == UNION {[1..n -> LocaleStrings] : n \in 0..MaxPreferences}

\* Available lists: the shipped one, and short ones in both orders.
AvailableInputs ==
    {DefaultAvailableLocales, << EN_US, ES_ES >>, << EN_US, FR >>, << FR, EN_US >>}

(***************************************************************************)
(* The state machine: one action per public operation.                      *)
(***************************************************************************)
Construct(self) ==
    /\ current_locale = self.current_locale
    /\ available_locales = self.available_locales
    /\ fallback_locale = self.fallback_locale
    /\ locale_native_names = self.locale_native_names
    /\ string_cache = self.string_cache
    /\ normalized_key_cache = self.normalized_key_cache
    /\ bundles = self.bundles
    /\ use_isolating = self.use_isolating
    /\ files = InitialFiles
    /\ last = [op |-> "new", input |-> << >>, result |-> Ok(Unit), parsed |-> {},
               pre |-> self, files |-> InitialFiles]

Init == \E l \in NegotiatedLocales, isolating \in BOOLEAN : Construct(Default(l, isolating))

\* A call of op on the engine: r is what the method leaves.  A panic ends
\* the process, so nothing is called after one.
Call(op, input, r) ==
    /\ last.result.kind # "panic"
    /\ current_locale' = r.self.current_locale
    /\ available_locales' = r.self.available_locales
    /\ fallback_locale' = r.self.fallback_locale
    /\ locale_native_names' = r.self.locale_native_names
    /\ string_cache' = r.self.string_cache
    /\ normalized_key_cache' = r.self.normalized_key_cache
    /\ bundles' = r.self.bundles
    /\ use_isolating' = r.self.use_isolating
    /\ files' = files
    /\ last' = [op |-> op, input |-> input, result |-> r.ret,
                parsed |-> r.self.parsed, pre |-> Self, files |-> files]

GetString ==
    \E id \in KeyInputs : Call("get_string", [id |-> id, args |-> None], get_string(Self, id))

GetCachedStringWithArgs ==
    \E id \in ArgKeyInputs, args \in ArgsInputs :
        Call("get_cached_string", [id |-> id, args |-> args],
             get_cached_string(Self, id, args))

SetLocale ==
    \E locale \in LocaleInputs :
        Call("set_locale", [locale |-> locale], set_locale(Self, locale))

ClearCache == Call("clear_cache", << >>, clear_cache(Self))

LimitStringCacheSize ==
    \E max \in 0..MaxLimit :
        Call("limit_string_cache_size", [max |-> max], limit_string_cache_size(Self, max))

CacheString ==
    \E input \in StoredInputs :
        Call("cache_string", input,
             Return(cache_string(Self, input.locale, input.id, input.result).self, Ok(Unit)))

NormalizedFtlKey ==
    \E key \in RawKeyInputs, comment \in CommentInputs :
        Call("normalized_ftl_key", [key |-> key, comment |-> comment],
             normalized_ftl_key(Self, key, comment))

GetCacheStats == Call("get_cache_stats", << >>, Return(Self, Ok(get_cache_stats(Self))))

Next ==
    \/ GetString
    \/ GetCachedStringWithArgs
    \/ SetLocale
    \/ ClearCache
    \/ LimitStringCacheSize
    \/ CacheString
    \/ NormalizedFtlKey
    \/ GetCacheStats

Spec == Init /\ [][Next]_vars

\* The lookups, the locale switch and the cache management, without direct
\* cache_string calls.
NextLookups ==
    \/ GetString
    \/ GetCachedStringWithArgs
    \/ SetLocale
    \/ ClearCache
    \/ LimitStringCacheSize

SpecLookups == Init /\ [][NextLookups]_vars

\* An engine whose available list names a locale (it) that FTLS has no
\* entry for: the case the Err arm of ensure_bundle is written for.
InitMissingFtl ==
    \E l \in NegotiatedLocales, isolating \in BOOLEAN :
        Construct([Default(l, isolating) EXCEPT
                      !.available_locales = DefaultAvailableLocales \o << IT >>])

SpecMissingFtl == InitMissingFtl /\ [][NextLookups]_vars

\* Engines constructed where the system reports any of the preference lists.
InitNegotiated ==
    \E system_locales \in PreferenceLists, isolating \in BOOLEAN :
        Construct(Default(negotiate_system_locale_with_preferences(
                              system_locales, DefaultAvailableLocales),
                          isolating))

SpecNegotiatedLookups == InitNegotiated /\ [][NextLookups]_vars

\* The first normalization of a new engine, for every raw key and comment.
NormalizeFirstKey ==
    \E key \in AllRawKeys, comment \in AllComments :
        /\ normalized_key_cache = EmptyMap
        /\ Call("normalized_ftl_key", [key |-> key, comment |-> comment],
                normalized_ftl_key(Self, key, comment))

SpecKeys == Init /\ [][NormalizeFirstKey]_vars

\* Normalizations of raw keys with the same stem, in any order.
NormalizeSameStemKey ==
    \E key \in SameStemKeyInputs, comment \in SameStemCommentInputs :
        Call("normalized_ftl_key", [key |-> key, comment |-> comment],
             normalized_ftl_key(Self, key, comment))

SpecSameStemKeys == Init /\ [][NormalizeSameStemKey]_vars

\* Negotiation of a list of reported locale strings against an available list.
NegotiateSystemLocale ==
    \E system_locales \in PreferenceLists, available \in AvailableInputs :
        Call("negotiate_system_locale_with_preferences",
             [system_locales |-> system_locales, available |-> available],
             Return(Self, Ok(negotiate_system_locale_with_preferences(system_locales,
                                                                       available))))

SpecNegotiation == Init /\ [][NegotiateSystemLocale]_vars

\* Negotiations between the calls that change the engine: the locale switch,
\* the lookups and the cache management.
RepeatedPreferenceInputs ==
    {<< >>, << es_MX_str >>, << uk_str >>, << fr_str, en_US_str >>, << C_str, fr_str >>}

\* A negotiation that keeps the locale the engine has whenever that locale
\* is in the available list it is given.
NegotiateOnEngineKeepsCurrent ==
    \E system_locales \in RepeatedPreferenceInputs, available \in AvailableInputs :
        Call("negotiate_system_locale_with_preferences",
             [system_locales |-> system_locales, available |-> available],
             Return(Self,
                    Ok(IF current_locale \in Range(available) THEN current_locale
                       ELSE negotiate_system_locale_with_preferences(system_locales,
                                                                     available))))

NegotiateOnEngine ==
    \E system_locales \in RepeatedPreferenceInputs, available \in AvailableInputs :
        Call("negotiate_system_locale_with_preferences",
             [system_locales |-> system_locales, available |-> available],
             Return(Self, Ok(negotiate_system_locale_with_preferences(system_locales,
                                                                       available))))

NextNegotiationOnEngine ==
    \/ NegotiateOnEngine
    \/ GetString
    \/ GetCachedStringWithArgs
    \/ SetLocale
    \/ ClearCache
    \/ LimitStringCacheSize

SpecNegotiationOnEngine == Init /\ [][NextNegotiationOnEngine]_vars

\* The file storage: a call leaves the engine as it is.
StorageCall(op, input, r) ==
    /\ files' = r.self
    /\ last' = [op |-> op, input |-> input, result |-> r.ret, parsed |-> {},
                pre |-> Self, files |-> files]
    /\ UNCHANGED << current_locale, available_locales, fallback_locale,
                    locale_native_names, string_cache, normalized_key_cache,
                    bundles, use_isolating >>

WriteFile ==
    \E directory \in DirectoryInputs, file_name \in FileNameInputs, data \in DataInputs :
        StorageCall("write_file",
                    [directory |-> directory, file_name |-> file_name, data |-> data],
                    write_file(files, directory, file_name, data))

DeleteFile ==
    \E directory \in DirectoryInputs, file_name \in FileNameInputs :
        StorageCall("delete_file", [directory |-> directory, file_name |-> file_name],
                    delete_file(files, directory, file_name))

GetFile ==
    \E directory \in DirectoryInputs, file_name \in FileNameInputs :
        StorageCall("get_file", [directory |-> directory, file_name |-> file_name],
                    Return(files, get_file(files, directory, file_name)))

GetFiles ==
    \E directory \in DirectoryInputs :
        StorageCall("get_files", [directory |-> directory],
                    Return(files, get_files(files, directory)))

GetFileNames ==
    \E directory \in DirectoryInputs :
        StorageCall("get_file_names", [directory |-> directory],
                    Return(files, get_file_names(files, directory)))

NextStorage ==
    \/ WriteFile
    \/ DeleteFile
    \/ GetFile
    \/ GetFiles
    \/ GetFileNames

SpecStorage == Init /\ [][NextStorage]_vars

\* The strings extract_language_region is applied to: every string of up to
\* MaxLocaleStrLen characters over letters, a digit, the hyphen and a
\* character outside ASCII, and the two strings with extensions named for it.
MaxLocaleStrLen == 4
ExtractInputs ==
    UNION {[1..n -> {"f", "R", "9", "-", "U+00E9"}] : n \in 0..MaxLocaleStrLen}
    \cup {fr_FR_u_mu_celsius_str,
          << "e", "s", "-", "4", "1", "9", "-", "u", "-", "m", "u", "-",
             "c", "e", "l", "s", "i", "u", "s" >>}

\* One application to each string, where the engine was constructed (the
\* function takes no engine and its result depends on the string alone).
ExtractLanguageRegion ==
    \E locale_str \in ExtractInputs :
        /\ last.op = "new"
        /\ Call("extract_language_region", [locale_str |-> locale_str],
                Return(Self, Ok(extract_language_region(locale_str))))

SpecExtract == Init /\ [][ExtractLanguageRegion]_vars

(***************************************************************************)
(* What the properties are stated in.                                       *)
(***************************************************************************)
IsLookup == last.op \in {"get_string", "get_cached_string"}

\* The entries (locale, key) of a formatted-string cache.
Entries(cache) == UNION {{<< l, k >> : k \in DOMAIN cache[l]} : l \in DOMAIN cache}

\* The engine holds a formatted text for id under its current locale.
Cached(self, id) ==
    /\ self.current_locale \in DOMAIN self.string_cache
    /\ id \in DOMAIN self.string_cache[self.current_locale]

\* The embedded source of a locale, read directly.
HasFtl(lang) == \E i \in DOMAIN FTLS : FTLS[i].identifier = lang
FtlOf(lang) == FTLS[CHOOSE i \in DOMAIN FTLS : FTLS[i].identifier = lang].ftl
Defines(lang, id) ==
    \E i \in DOMAIN FtlOf(lang) : FtlOf(lang)[i].kind = "message" /\ FtlOf(lang)[i].id = id
FirstEntry(lang, id) ==
    FtlOf(lang)[CHOOSE i \in DOMAIN FtlOf(lang) :
                   /\ FtlOf(lang)[i].kind = "message" /\ FtlOf(lang)[i].id = id
                   /\ \A j \in DOMAIN FtlOf(lang) :
                         (FtlOf(lang)[j].kind = "message" /\ FtlOf(lang)[j].id = id) => i <= j]
HasValue(lang, id) == Defines(lang, id) /\ FirstEntry(lang, id).has_value

\* What rendering id from the source of lang gives, with no cache involved.
FreshRender(lang, isolating, id, args) ==
    IF ~Defines(lang, id) THEN NotFound(id)
    ELSE IF ~FirstEntry(lang, id).has_value THEN NoValue(id)
    ELSE Ok(format_pattern([use_isolating |-> isolating],
                           FirstEntry(lang, id).pattern, args))

(***************************************************************************)
(* C1.  set_locale(L) for an available L returns Ok, makes L the current    *)
(* locale, leaves no formatted string cached under any locale (also when L  *)
(* was already current) and leaves the parsed bundles as they were.         *)
(***************************************************************************)
C1_SetLocaleSwitchesAndClearsStrings ==
    (last.op = "set_locale" /\ last.input.locale \in Range(last.pre.available_locales)) =>
        /\ last.result = Ok(Unit)
        /\ current_locale = last.input.locale
        /\ Entries(string_cache) = {}
        /\ get_cache_stats(Self).string_cache_size = 0
        /\ bundles = last.pre.bundles

\* A switch to the locale that is already current, with strings cached and
\* a bundle parsed before it.
C1_Witness ==
    /\ last.op = "set_locale"
    /\ IsOk(last.result)
    /\ last.input.locale = last.pre.current_locale
    /\ Entries(last.pre.string_cache) # {}
    /\ DOMAIN bundles # {}

(***************************************************************************)
(* C2.  Without direct cache_string calls, a successful get_string(key)     *)
(* returns the text a fresh render of key from the source of the current    *)
(* locale gives, never a text rendered under another locale.                *)
(***************************************************************************)
C2_GetStringIsFreshRender ==
    (last.op = "get_string" /\ IsOk(last.result)) =>
        last.result = FreshRender(current_locale, use_isolating, last.input.id, None)

\* A cache hit under fr after strings were rendered under en-US.
C2_Witness ==
    /\ last.op = "get_string"
    /\ IsOk(last.result)
    /\ Cached(last.pre, last.input.id)
    /\ current_locale = FR
    /\ EN_US \in DOMAIN bundles

(***************************************************************************)
(* C3.  set_locale(L) for an L outside the available list returns           *)
(* LocaleNotAvailable(L) and changes nothing: current locale, formatted     *)
(* strings, parsed bundles and normalized keys are as before the call.      *)
(***************************************************************************)
C3_UnavailableLocaleRejected ==
    (last.op = "set_locale" /\ last.input.locale \notin Range(last.pre.available_locales)) =>
        /\ last.result = LocaleNotAvailable(last.input.locale)
        /\ Self = last.pre

\* A rejected switch in an engine whose three caches all hold something.
C3_Witness ==
    /\ last.op = "set_locale"
    /\ last.result.kind = "LocaleNotAvailable"
    /\ Entries(string_cache) # {}
    /\ DOMAIN bundles # {}
    /\ DOMAIN normalized_key_cache # {}

(***************************************************************************)
(* C4.  A lookup with arguments leaves the formatted-string cache as it     *)
(* was, so the cached-string count of get_cache_stats is the same after the *)
(* call as before it (0 on an empty cache).                                 *)
(***************************************************************************)
C4_ArgumentsNeverCached ==
    (last.op = "get_cached_string" /\ last.input.args.some) =>
        /\ string_cache = last.pre.string_cache
        /\ get_cache_stats(Self).string_cache_size
              = get_cache_stats(last.pre).string_cache_size

\* A lookup with arguments that rendered Bob's text on an empty cache.
C4_Witness ==
    /\ last.op = "get_cached_string"
    /\ last.input.args = Some([name |-> "Bob"])
    /\ IsOk(last.result)
    /\ \E i \in DOMAIN last.result.value : last.result.value[i] = "Bob"
    /\ get_cache_stats(Self).string_cache_size = 0

(***************************************************************************)
(* C5.  A lookup with arguments does not read the formatted-string cache:   *)
(* whatever is cached for the key, it returns what the bundle of the        *)
(* current locale gives for the key with those arguments.                   *)
(***************************************************************************)
C5_ArgumentsBypassCache ==
    (last.op = "get_cached_string" /\ last.input.args.some) =>
        last.result = FreshRender(current_locale, use_isolating, last.input.id,
                                  last.input.args)

\* A lookup with arguments of a key whose argument-free text is cached, and
\* which returned another text.
C5_Witness ==
    /\ last.op = "get_cached_string"
    /\ last.input.args.some
    /\ IsOk(last.result)
    /\ Cached(last.pre, last.input.id)
    /\ last.result.value # last.pre.string_cache[current_locale][last.input.id]

(***************************************************************************)
(* C6.  get_string(key) for a key that has a value in the source of the     *)
(* current locale and is not cached succeeds and adds the one entry         *)
(* (current locale, key), holding the returned text; a get_string(key)      *)
(* right after a successful get_string(key) returns the same text and       *)
(* changes neither the parsed bundles nor the cached strings.               *)
(***************************************************************************)
C6_FirstLookupCachesSecondHits ==
    [][ /\ (/\ last'.op = "get_string"
            /\ HasValue(current_locale, last'.input.id)
            /\ ~Cached(Self, last'.input.id)) =>
               /\ IsOk(last'.result)
               /\ Entries(string_cache')
                     = Entries(string_cache) \cup {<< current_locale, last'.input.id >>}
               /\ get_cache_stats(Self).string_cache_size + 1
                     = (get_cache_stats(Self).string_cache_size)'
               /\ string_cache'[current_locale][last'.input.id] = last'.result.value
               /\ \A e \in Entries(string_cache) :
                     string_cache'[e[1]][e[2]] = string_cache[e[1]][e[2]]
        /\ (/\ last.op = "get_string"
            /\ IsOk(last.result)
            /\ last'.op = "get_string"
            /\ last'.input.id = last.input.id) =>
               /\ last'.result = last.result
               /\ bundles' = bundles
               /\ string_cache' = string_cache
      ]_vars

\* A get_string answered with the rendered text that an earlier get_string
\* cached, with nothing parsed.
C6_Witness ==
    /\ last.op = "get_string"
    /\ IsOk(last.result)
    /\ Cached(last.pre, last.input.id)
    /\ last.result = FreshRender(current_locale, use_isolating, last.input.id, None)
    /\ last.result.value = last.pre.string_cache[current_locale][last.input.id]
    /\ bundles = last.pre.bundles
    /\ last.parsed = {}

(***************************************************************************)
(* C7.  A lookup, with or without arguments, of a key that the source of    *)
(* the current locale does not define and that has no cached text returns   *)
(* NotFound carrying that key.                                              *)
(***************************************************************************)
C7_MissingKeyNotFound ==
    (/\ IsLookup
     /\ ~Defines(last.pre.current_locale, last.input.id)
     /\ ~Cached(last.pre, last.input.id)) =>
        last.result = NotFound(last.input.id)

\* get_string under fr of a key that only the en-US source defines.
C7_Witness ==
    /\ last.op = "get_string"
    /\ last.input.id = "only_en"
    /\ current_locale = FR
    /\ last.result = NotFound("only_en")

C10_BundlesParsedOnce ==
    (last.op # "clear_cache") =>
        /\ \A l \in DOMAIN last.pre.bundles :
              l \in DOMAIN bundles /\ bundles[l] = last.pre.bundles[l]
        /\ last.parsed \cap DOMAIN last.pre.bundles = {}
        /\ DOMAIN bundles = (DOMAIN last.pre.bundles) \cup last.parsed
        /\ last.parsed \subseteq (IF IsLookup THEN {last.pre.current_locale} ELSE {})

\* A lookup under fr that parsed nothing, with the en-US bundle, parsed
\* before the switch, still in the cache.
C10_Witness ==
    /\ IsLookup
    /\ current_locale = FR
    /\ last.parsed = {}
    /\ DOMAIN last.pre.bundles = {EN_US, FR}
    /\ bundles = last.pre.bundles

C12_CacheStatsCountTheCaches ==
    /\ get_cache_stats(Self).resource_cache_size
          = Cardinality({l \in DOMAIN bundles : has_bundle(Self, l)})
    /\ get_cache_stats(Self).string_cache_size = Cardinality(Entries(string_cache))
    /\ Range(get_cache_stats(Self).cached_locales) = DOMAIN bundles
    /\ Len(get_cache_stats(Self).cached_locales)
          = get_cache_stats(Self).resource_cache_size
    /\ (last.op = "get_cache_stats") =>
          /\ last.result = Ok(get_cache_stats(Self))
          /\ Self = last.pre

\* get_cache_stats on an engine with two parsed bundles and three strings
\* cached under two locales.
C12_Witness ==
    /\ last.op = "get_cache_stats"
    /\ last.result.value.resource_cache_size = 2
    /\ last.result.value.string_cache_size = 3
    /\ Cardinality(DOMAIN string_cache) = 2

(***************************************************************************)
(* C13.  limit_string_cache_size(max) empties the formatted-string cache of *)
(* every locale that holds more than max strings and leaves the cache of    *)
(* every other locale as it was; afterwards no locale holds more than max   *)
(* strings, and the parsed bundles and the current locale are as before.    *)
(***************************************************************************)
C13_LimitClearsOversizedLocales ==
    (last.op = "limit_string_cache_size") =>
        /\ DOMAIN string_cache = DOMAIN last.pre.string_cache
        /\ \A l \in DOMAIN last.pre.string_cache :
              IF Cardinality(DOMAIN last.pre.string_cache[l]) > last.input.max
              THEN DOMAIN string_cache[l] = {}
              ELSE string_cache[l] = last.pre.string_cache[l]
        /\ \A l \in DOMAIN string_cache :
              Cardinality(DOMAIN string_cache[l]) <= last.input.max
        /\ bundles = last.pre.bundles
        /\ current_locale = last.pre.current_locale

\* A limit of one string on an engine with two strings under en-US and one
\* under it: the first cache is emptied, the second is kept.
C13_Witness ==
    /\ last.op = "limit_string_cache_size"
    /\ last.input.max = 1
    /\ EN_US \in DOMAIN last.pre.string_cache
    /\ Cardinality(DOMAIN last.pre.string_cache[EN_US]) = 2
    /\ IT \in DOMAIN last.pre.string_cache
    /\ DOMAIN string_cache[EN_US] = {}
    /\ DOMAIN string_cache[IT] = {"missing"}

(***************************************************************************)
(* C14.  The canonical key of a raw key is fixed by its first               *)
(* normalization: no call removes or changes an entry of the normalized-    *)
(* key cache, and normalized_ftl_key of a raw key that has an entry         *)
(* returns that entry whatever comment it is given.                         *)
(***************************************************************************)
C14_NormalizationMemoizedOnRawKey ==
    /\ \A k \in DOMAIN last.pre.normalized_key_cache :
          /\ k \in DOMAIN normalized_key_cache
          /\ normalized_key_cache[k] = last.pre.normalized_key_cache[k]
    /\ (last.op = "normalized_ftl_key") =>
          /\ last.result = Ok(normalized_key_cache[last.input.key])
          /\ (last.input.key \in DOMAIN last.pre.normalized_key_cache) =>
                last.result = Ok(last.pre.normalized_key_cache[last.input.key])

\* A second normalization, with another comment, after a locale switch, a
\* lookup and a clear_cache: it returns the key the first comment gave.
C14_Witness ==
    /\ last.op = "normalized_ftl_key"
    /\ last.input.key \in DOMAIN last.pre.normalized_key_cache
    /\ last.result.value
          # insert_ftl_key(last.pre, last.input.key, last.input.comment)
               .self.normalized_key_cache[last.input.key]
    /\ last.result.value = last.pre.normalized_key_cache[last.input.key]

(***************************************************************************)
(* C15.  The canonical key of every raw key and comment begins with an      *)
(* ASCII letter, holds only ASCII letters, digits, hyphens and underscores, *)
(* and ends with an underscore and the four lowercase hexadecimal digits of *)
(* the digest of the comment; before them stands the raw key with each      *)
(* invalid character replaced by one underscore and the underscores at both *)
(* ends dropped, after k_ when that does not begin with a letter.           *)
(***************************************************************************)
IdentifierChars == AsciiAlphabetic \cup AsciiDigit \cup {"-", "_"}
LowerHex == AsciiDigit \cup {"a", "b", "c", "d", "e", "f"}

\* The raw key with one underscore for each invalid character, from its
\* first to its last character other than an underscore.
StemOf(raw) ==
    LET replaced == [i \in DOMAIN raw |->
                        IF raw[i] \in IdentifierChars THEN raw[i] ELSE "_"]
        kept == {i \in DOMAIN raw : replaced[i] # "_"}
    IN IF kept = {} THEN << >>
       ELSE SubSeq(replaced,
                   CHOOSE i \in kept : \A j \in kept : i <= j,
                   CHOOSE i \in kept : \A j \in kept : j <= i)

C15_CanonicalKeyShape ==
    (last.op = "normalized_ftl_key" /\ last.input.key \notin DOMAIN last.pre.normalized_key_cache) =>
        LET k == last.result.value
            n == Len(k)
            stem == StemOf(last.input.key)
        IN /\ IsOk(last.result)
           /\ n >= 6
           /\ k[1] \in AsciiAlphabetic
           /\ \A i \in 1..n : k[i] \in IdentifierChars
           /\ k[n - 4] = "_"
           /\ \A i \in (n - 3)..n : k[i] \in LowerHex
           /\ SubSeq(k, n - 3, n) = simple_hash(last.input.comment)
           /\ SubSeq(k, 1, n - 5) =
                 (IF stem # << >> /\ stem[1] \in AsciiAlphabetic
                  THEN stem ELSE << "k", "_" >> \o stem)

\* The key "-7.": its stem -7 begins with a hyphen and gets the k_ prefix.
C15_Witness ==
    /\ last.op = "normalized_ftl_key"
    /\ last.input.key = << "-", "7", "." >>
    /\ last.input.comment = ""
    /\ last.result.value = << "k", "_", "-", "7", "_", "d", "4", "1", "d" >>

(***************************************************************************)
(* C16.  Two first normalizations, one after the other, of distinct raw     *)
(* keys with the same stem: with different comments they give different     *)
(* canonical keys, with the same comment the same canonical key.            *)
(***************************************************************************)
FirstNormalization(l) ==
    /\ l.op = "normalized_ftl_key"
    /\ l.input.key \notin DOMAIN l.pre.normalized_key_cache

SameStemPair(l1, l2) ==
    /\ FirstNormalization(l1)
    /\ FirstNormalization(l2)
    /\ l1.input.key # l2.input.key
    /\ fixup_key(l1.input.key) = fixup_key(l2.input.key)

C16_SameStemKeysSplitByComment ==
    [][ SameStemPair(last, last') =>
           /\ (last.input.comment # last'.input.comment) => last.result # last'.result
           /\ (last.input.comment = last'.input.comment) => last.result = last'.result
      ]_vars

(***************************************************************************)
(* C16, amended.  With comments whose four-digit digests differ the two     *)
(* keys get different canonical keys; with comments whose digests are equal *)
(* (the same comment, or two comments whose MD5 digests begin with the same *)
(* two bytes) they get the same canonical key.                              *)
(***************************************************************************)
C16_SameStemKeysSplitByDigest ==
    [][ SameStemPair(last, last') =>
           /\ (simple_hash(last.input.comment) # simple_hash(last'.input.comment)) =>
                  last.result # last'.result
           /\ (simple_hash(last.input.comment) = simple_hash(last'.input.comment)) =>
                  last.result = last'.result
      ]_vars

\* a#b normalized for the first time in an engine that holds a.b under
\* another canonical key.
C16_Witness ==
    /\ FirstNormalization(last)
    /\ last.input.key = << "a", "#", "b" >>
    /\ << "a", ".", "b" >> \in DOMAIN last.pre.normalized_key_cache
    /\ last.result.value # normalized_key_cache[<< "a", ".", "b" >>]
    /\ last.result.value = << "a", "_", "b", "_", "c", "d", "e", "6" >>

(***************************************************************************)
(* What the negotiation properties are stated in.                           *)
(***************************************************************************)
IsNegotiation == last.op = "negotiate_system_locale_with_preferences"

Parses(s) == IsOk(parse(s))

\* The candidates of a negotiation: the reported strings and the fallbacks
\* pushed after a single one; and those that parse, parsed.
Candidates == with_fallbacks(last.input.system_locales)
ParsedCandidates == parse_all(Candidates)

\* The parsed candidates that share their language with an available locale.
LanguageMatched ==
    {i \in DOMAIN ParsedCandidates :
        \E a \in Range(last.input.available) : a.language = ParsedCandidates[i].language}

\* The earliest of them.
EarliestMatched == ParsedCandidates[CHOOSE i \in LanguageMatched : \A j \in LanguageMatched : i <= j]

\* The first locale of the available list with the language of id.
FirstAvailableOfLanguage(id) ==
    last.input.available[CHOOSE i \in DOMAIN last.input.available :
        /\ last.input.available[i].language = id.language
        /\ \A j \in 1..(i - 1) : last.input.available[j].language # id.language]

(***************************************************************************)
(* C17.  Negotiation returns en-US for an empty list of reported locales    *)
(* and for a list of which, with the fallbacks pushed after a single one,   *)
(* no string parses; a string that does not parse is passed over: the       *)
(* result is a locale, and it has the language of the earliest candidate    *)
(* that parses and shares its language with an available locale (en-US      *)
(* when there is none).                                                     *)
(***************************************************************************)
C17_DefaultWhenNothingParses ==
    IsNegotiation =>
        /\ (last.input.system_locales = << >>) => last.result = Ok(EN_US)
        /\ (\A i \in DOMAIN Candidates : ~Parses(Candidates[i])) => last.result = Ok(EN_US)
        /\ IsOk(last.result)
        /\ last.result.value \in Range(last.input.available) \cup {EN_US}
        /\ IF LanguageMatched = {} THEN last.result.value = EN_US
           ELSE last.result.value.language = EarliestMatched.language

\* C and then fr: the first string does not parse, the result is fr.
C17_Witness ==
    /\ IsNegotiation
    /\ last.input.system_locales = << C_str, fr_str >>
    /\ last.input.available = DefaultAvailableLocales
    /\ last.result = Ok(FR)

(***************************************************************************)
(* C18.  When several candidates match available locales, the result is a   *)
(* match of the earliest one: an available locale of its language, and the  *)
(* candidate itself when it is available; fr and then en-US give fr         *)
(* whenever both are available, in either order of the available list.      *)
(***************************************************************************)
C18_EarliestPreferenceWins ==
    IsNegotiation =>
        /\ (LanguageMatched # {}) =>
              /\ last.result.value \in Range(last.input.available)
              /\ last.result.value.language = EarliestMatched.language
              /\ (EarliestMatched \in Range(last.input.available)) =>
                    last.result.value = EarliestMatched
        /\ (/\ last.input.system_locales = << fr_str, en_US_str >>
            /\ {EN_US, FR} \subseteq Range(last.input.available)) =>
              last.result = Ok(FR)

\* fr and then en-US against an available list with en-US before fr.
C18_Witness ==
    /\ IsNegotiation
    /\ last.input.system_locales = << fr_str, en_US_str >>
    /\ last.input.available = << EN_US, FR >>
    /\ last.result = Ok(FR)

(***************************************************************************)
(* C19.  When no reported locale is itself an available locale, the result  *)
(* is found by language: for the earliest candidate that shares its         *)
(* language with an available locale, the first locale of the available     *)
(* list, in its order, with that language (the candidate itself when it is  *)
(* a pushed fallback that is available), and en-US only when no candidate   *)
(* shares its language; es-MX alone against en-US and es-ES gives es-ES.    *)
(***************************************************************************)
C19_LanguageOnlyFallback ==
    (/\ IsNegotiation
     /\ \A i \in DOMAIN last.input.system_locales :
           Parses(last.input.system_locales[i]) =>
              parse(last.input.system_locales[i]).value \notin Range(last.input.available)) =>
        /\ last.result =
              (IF LanguageMatched = {} THEN Ok(EN_US)
               ELSE IF EarliestMatched \in Range(last.input.available)
               THEN Ok(EarliestMatched)
               ELSE Ok(FirstAvailableOfLanguage(EarliestMatched)))
        /\ (/\ last.input.system_locales = << es_MX_str >>
            /\ Range(last.input.available) = {EN_US, ES_ES}) =>
              last.result = Ok(ES_ES)

(***************************************************************************)
(* C20.  After a single reported locale the fallbacks are pushed: es-ES and *)
(* en-US after Ukrainian, en-US alone after every other language and after  *)
(* a string that does not parse; a list of two or more gets none.  The      *)
(* result is that of the list with its fallbacks: xx-YY alone gives en-US,  *)
(* uk alone gives es-ES where es-ES is available.                           *)
(***************************************************************************)
C20_SinglePreferenceFallbacks ==
    IsNegotiation =>
        LET reported == last.input.system_locales
            ukrainian == /\ Parses(reported[1])
                         /\ parse(reported[1]).value.language = << "u", "k" >>
            expected == IF Len(reported) # 1 THEN reported
                        ELSE IF ukrainian THEN reported \o << es_ES_str, en_US_str >>
                        ELSE reported \o << en_US_str >>
        IN /\ Candidates = expected
           /\ (reported # << >>) =>
                 last.result = Ok(negotiate_parsed(parse_all(expected), last.input.available))
           /\ (reported = << xx_YY_str >>) => last.result = Ok(EN_US)
           /\ (reported = << uk_str >> /\ ES_ES \in Range(last.input.available)) =>
                 last.result = Ok(ES_ES)

\* uk alone against the shipped list.
C20_Witness ==
    /\ IsNegotiation
    /\ last.input.system_locales = << uk_str >>
    /\ last.input.available = DefaultAvailableLocales
    /\ last.result = Ok(ES_ES)

C22_RegistryConsistentAndImmutable ==
    /\ available_locales = last.pre.available_locales
    /\ locale_native_names = last.pre.locale_native_names
    /\ fallback_locale = last.pre.fallback_locale
    /\ available_locales = DefaultAvailableLocales
    /\ fallback_locale = EN_US
    /\ fallback_locale \in Range(available_locales)
    /\ \A i, j \in DOMAIN available_locales :
          available_locales[i] = available_locales[j] => i = j
    /\ \A l \in Range(available_locales) :
          /\ get_locale_native_name(Self, l) = Some(NativeName(l))
          /\ Cardinality({i \in 1..NUM_FTLS : FTLS[i].identifier = l}) = 1
    /\ \A l \in (LocaleInputs \cup {s.locale : s \in StoredInputs})
                 \ Range(available_locales) :
          get_locale_native_name(Self, l) = None
    /\ DOMAIN locale_native_names = Range(available_locales)

\* A rejected switch to it, a locale with no native name, in an engine that
\* has switched locale and holds cached strings and bundles.
C22_Witness ==
    /\ last.op = "set_locale"
    /\ last.result = LocaleNotAvailable(IT)
    /\ get_locale_native_name(Self, IT) = None
    /\ get_locale_native_name(Self, current_locale) = Some("Francais")
    /\ Cardinality(DOMAIN bundles) = 2
    /\ Entries(string_cache) # {}

(***************************************************************************)
(* C23.  Only a set_locale that returns Ok changes the current locale:      *)
(* after a lookup with or without arguments, normalized_ftl_key,            *)
(* cache_string, clear_cache, limit_string_cache_size, get_cache_stats and  *)
(* a set_locale that returns an error, the current locale is what it was    *)
(* before the call, also when the call loaded a bundle.                     *)
(***************************************************************************)
C23_OnlySetLocaleChangesLocale ==
    (last.op # "new" /\ ~(last.op = "set_locale" /\ IsOk(last.result))) =>
        current_locale = last.pre.current_locale

\* A lookup that loaded the bundle of fr, the current locale, in an engine
\* constructed with en-US.
C23_Witness ==
    /\ IsLookup
    /\ last.parsed = {FR}
    /\ EN_US \in DOMAIN bundles
    /\ current_locale = FR
    /\ last.pre.current_locale = FR


C26_BundlesFollowEngineIsolation ==
    /\ use_isolating = last.pre.use_isolating
    /\ \A l \in DOMAIN bundles : bundles[l].use_isolating = use_isolating
    /\ \A l \in last.parsed : l \in DOMAIN bundles /\ bundles[l].use_isolating = use_isolating

\* A no_bidi engine that loaded en-US, was switched to fr and loaded fr in
\* the last lookup: both bundles have isolation off.
C26_Witness ==
    /\ ~use_isolating
    /\ IsLookup /\ last.parsed = {FR} /\ current_locale = FR
    /\ DOMAIN bundles = {EN_US, FR}
    /\ ~bundles[FR].use_isolating /\ ~bundles[EN_US].use_isolating


\* C27: in every reachable state the current locale is in the available
\* list, whatever the system reported at construction and whichever
\* set_locale calls were made; so FTLS has a source for it, loading its
\* bundle succeeds, no call ends with the no-resource error or a panic, and
\* the Err arm of ensure_bundle's match is not entered.
C27_CurrentLocaleAvailable ==
    /\ current_locale \in Range(available_locales)
    /\ IsOk(load_bundle(current_locale))
    /\ IsOk(try_load_bundle(Self, current_locale).ret)
    /\ ensure_bundle(Self).ret = Ok(Unit)
    /\ last.result.kind \notin {"NoFtl", "panic"}
    /\ (last.op = "set_locale" /\ last.input.locale \notin Range(available_locales))
           => last.result = LocaleNotAvailable(last.input.locale)

\* An engine constructed where the system reported a Spanish locale has
\* loaded the bundle of its current locale, es-ES, in the last lookup.
C27_Witness ==
    /\ IsLookup /\ IsOk(last.result)
    /\ current_locale = ES_ES
    /\ last.parsed = {ES_ES}
    /\ ES_ES \in DOMAIN bundles


\* C28: under lookups, set_locale, clear_cache and limit_string_cache_size
\* (no direct cache_string), every entry of the formatted-string cache is
\* stored under the current locale and the bundle of every locale with a
\* cached string is loaded; so a lookup answered from the cache found the
\* bundle of its locale loaded before the call, and neither the lookup's
\* bundle access nor any call panics.
C28_CachedStringsUnderLoadedCurrentLocale ==
    /\ \A e \in Entries(string_cache) :
           /\ e[1] = current_locale
           /\ e[1] \in DOMAIN bundles
    /\ (IsLookup /\ ~last.input.args.some /\ Cached(last.pre, last.input.id)) =>
           /\ last.pre.current_locale \in DOMAIN last.pre.bundles
           /\ last.parsed = {}
           /\ last.result = Ok(last.pre.string_cache[last.pre.current_locale][last.input.id])
    /\ get_current_bundle(ensure_bundle(Self).self).kind # "panic"
    /\ last.result.kind # "panic"

\* A lookup under fr answered from the cache, with the bundles of en-US and
\* fr loaded.
C28_Witness ==
    /\ IsLookup /\ ~last.input.args.some /\ Cached(last.pre, last.input.id)
    /\ current_locale = FR
    /\ DOMAIN bundles = {EN_US, FR}
    /\ Entries(string_cache) = {<< FR, "greeting" >>, << FR, "welcome" >>}


\* C29: a lookup that fails with NotFound or NoValue leaves the
\* formatted-string cache, the current locale and every other field as they
\* were, except that the bundle of the current locale is loaded afterwards
\* (the bundles loaded before are kept); the same lookup repeated on the
\* resulting engine fails with the same error and changes nothing.
C29_FailedLookupChangesOnlyBundle ==
    (IsLookup /\ last.result.kind \in {"NotFound", "NoValue"}) =>
        /\ string_cache = last.pre.string_cache
        /\ current_locale = last.pre.current_locale
        /\ Self = [last.pre EXCEPT !.bundles = bundles]
        /\ DOMAIN bundles = DOMAIN last.pre.bundles \cup {current_locale}
        /\ \A l \in DOMAIN last.pre.bundles : bundles[l] = last.pre.bundles[l]
        /\ last.parsed \subseteq {current_locale}
        /\ get_cached_string(Self, last.input.id, last.input.args) = Return(Self, last.result)

\* An argument-free lookup of a message without a value failed with NoValue
\* and loaded the bundle of the current locale, next to cached strings.
C29_Witness ==
    /\ IsLookup /\ ~last.input.args.some
    /\ last.result = NoValue(last.input.id)
    /\ last.parsed = {current_locale}
    /\ current_locale \notin DOMAIN last.pre.bundles
    /\ current_locale \in DOMAIN bundles
    /\ Entries(string_cache) # {}


\* C30: cache_string(locale, key, text) stores text under (locale, key)
\* whatever the locale (available or not, current or not) and the key
\* (in the bundle or not), replaces a previous entry and changes nothing
\* else; an argument-free get_string(key) that finds an entry under the
\* current locale returns it, also for a key the bundle does not define; the
\* entries stay until a successful set_locale or clear_cache (which leave
\* none) or a limit_string_cache_size that finds the locale's cache over the
\* limit (which empties that cache); a get_string that finds no entry under
\* the current locale returns the bundle's rendering, whatever is stored
\* under other locales.
C30_StoredTextOverridesBundle ==
    /\ last.op = "cache_string" =>
           /\ last.result = Ok(Unit)
           /\ last.input.locale \in DOMAIN string_cache
           /\ last.input.id \in DOMAIN string_cache[last.input.locale]
           /\ string_cache[last.input.locale][last.input.id] = last.input.result
           /\ Entries(string_cache) =
                  Entries(last.pre.string_cache) \cup {<< last.input.locale, last.input.id >>}
           /\ \A e \in Entries(last.pre.string_cache) :
                  e # << last.input.locale, last.input.id >> =>
                      string_cache[e[1]][e[2]] = last.pre.string_cache[e[1]][e[2]]
           /\ Self = [last.pre EXCEPT !.string_cache = string_cache]
    /\ (last.op = "get_string" /\ Cached(last.pre, last.input.id)) =>
           last.result = Ok(last.pre.string_cache[current_locale][last.input.id])
    /\ (last.op = "get_string" /\ ~Cached(last.pre, last.input.id)) =>
           last.result = FreshRender(current_locale, use_isolating, last.input.id, None)
    /\ (\/ IsLookup
        \/ last.op \in {"normalized_ftl_key", "get_cache_stats"}
        \/ last.op = "set_locale" /\ ~IsOk(last.result)) =>
           \A e \in Entries(last.pre.string_cache) :
               /\ e \in Entries(string_cache)
               /\ string_cache[e[1]][e[2]] = last.pre.string_cache[e[1]][e[2]]
    /\ ((last.op = "set_locale" /\ IsOk(last.result)) \/ last.op = "clear_cache") =>
           Entries(string_cache) = {}
    /\ last.op = "limit_string_cache_size" =>
           \A e \in Entries(last.pre.string_cache) :
               IF Cardinality(DOMAIN last.pre.string_cache[e[1]]) > last.input.max
               THEN e \notin Entries(string_cache)
               ELSE /\ e \in Entries(string_cache)
                    /\ string_cache[e[1]][e[2]] = last.pre.string_cache[e[1]][e[2]]

\* get_string("missing") under en-US returned the text stored by
\* cache_string, for a key the en-US source does not define, while the
\* locale it, which is not available, holds a stored text too.
C30_Witness ==
    /\ last.op = "get_string" /\ last.input.id = "missing"
    /\ current_locale = EN_US
    /\ ~Defines(EN_US, "missing")
    /\ last.result = Ok(<< "stored" >>)
    /\ << IT, "missing" >> \in Entries(string_cache)
    /\ IT \notin Range(available_locales)


\* C31 as stated, with the second part measured in characters: a second
\* part of at least two characters gives the first two parts joined by a
\* hyphen, a second part of one character gives the first part, a string
\* without a hyphen is returned unchanged, and the function applied to its
\* result returns the result.
C31_ExtractByCharacters ==
    last.op = "extract_language_region" =>
        LET s == last.input.locale_str
            parts == str_split(s)
        IN /\ (Len(parts) >= 2 /\ Len(parts[2]) >= 2) =>
                  last.result = Ok(parts[1] \o << "-" >> \o parts[2])
           /\ (Len(parts) >= 2 /\ Len(parts[2]) = 1) => last.result = Ok(parts[1])
           /\ Len(parts) = 1 => last.result = Ok(s)
           /\ extract_language_region(last.result.value) = last.result.value

\* C31, amended: the second part is measured in bytes of its UTF-8 encoding.
\* A second part of at least two bytes (two characters, or one character
\* outside ASCII) gives the first two parts joined by a hyphen, a second
\* part of fewer than two bytes (one ASCII character such as u, t or x, or
\* nothing) gives the first part, a string without a hyphen is returned
\* unchanged, and the function applied to its result returns the result.
C31_ExtractByBytes ==
    last.op = "extract_language_region" =>
        LET s == last.input.locale_str
            parts == str_split(s)
        IN /\ (Len(parts) >= 2 /\ len(parts[2]) >= 2) =>
                  last.result = Ok(parts[1] \o << "-" >> \o parts[2])
           /\ (Len(parts) >= 2 /\ len(parts[2]) < 2) => last.result = Ok(parts[1])
           /\ Len(parts) = 1 => last.result = Ok(s)
           /\ extract_language_region(last.result.value) = last.result.value
           /\ s = fr_FR_u_mu_celsius_str => last.result = Ok(<< "f", "r", "-", "F", "R" >>)

\* A second part of one character outside ASCII was kept as if it were a
\* region.
C31_Witness ==
    /\ last.op = "extract_language_region"
    /\ last.input.locale_str = << "f", "-", "U+00E9" >>
    /\ last.result = Ok(<< "f", "-", "U+00E9" >>)

====
